---- MODULE Spec2Model ----
(***************************************************************************)
(* Model of the API utility layer of the AI Room Designer                  *)
(* (src/utils/apiUtils.ts: TTL cache, sliding-window rate limiter,         *)
(* withRetry) and of the two redesignRoom services that consume it         *)
(* (services/geminiServices.tsx, and the client-side OpenRouter variant).  *)
(*                                                                         *)
(* Strings are sequences of character codes; Date.now() is the variable    *)
(* now (milliseconds).                                                     *)
(***************************************************************************)
EXTENDS Integers, Sequences, FiniteSets, TLC

(***************************************************************************)
(* Bounds of the model                                                     *)
(***************************************************************************)
MaxNow == 5          \* last clock value of the cache and limiter harnesses
MaxTtl == 2          \* largest ttl handed to cache.set by the harness
MaxLimit == 2        \* largest maxRequests of a harness RateLimiter
MaxWindow == 2       \* largest windowMs of a harness RateLimiter
MaxRecords == 4      \* most recordRequest calls the limiter harness makes
MaxAttempts == 7     \* largest maxAttempts handed to withRetry by the harness
MaxTicks == 1        \* most clock advances between the steps of redesignRoom calls
MaxRetries == 2      \* largest maxRetries option of a redesignRoom call

VARIABLES
  now,        \* Date.now()
  cache,      \* Cache.cache : Map<string, {data, timestamp, ttl}>
  cacheOp,    \* harness: the last Cache call, [op, key, ret]
  lastSet,    \* harness: per key, the arguments and time of the last set
              \*   not followed by delete/clear, or NoSet
  requests,     \* RateLimiter.requests : number[]
  maxRequests,  \* RateLimiter.maxRequests
  windowMs,     \* RateLimiter.windowMs
  limOp,        \* harness: the last RateLimiter call, [op, ret]
  recorded,     \* harness: the time of every recordRequest so far, unpruned
  retryConfig,  \* withRetry: config = {...defaultRetryOptions, ...options}
  retryPc,      \* withRetry: "start", "attempt", "sleep", "resolved", "rejected"
  attempt,      \* withRetry: the loop variable
  lastError,    \* withRetry: lastError
  retryResult,  \* withRetry: the value it resolved with, or the error it threw
  outcomes,     \* harness: what each invocation of the operation did, in order
  sleeps,       \* harness: the argument of each sleep call, in order
  variant,      \* which redesignRoom service the application is built with
  apiKeySet,    \* import.meta.env.VITE_API_KEY is set
  usage,        \* localStorage item gemini_daily_usage: NoItem or {date, count}
  pc,           \* per redesignRoom call: where it stands
  req,          \* per call: its arguments
  roomConfig,   \* per call: config = {...DEFAULT_REDESIGN_OPTIONS, ...options}
  cacheKey,     \* per call: cacheKey, once computed
  tries,        \* per call: attempt of its withRetry loop
  wakeAt,       \* per call: when the timer of its sleep fires
  result,       \* per call: the value returned or the error thrown
  seen,         \* per call, observed: [quota, limiter, network] counts of the
                \*   quota checks, rate-limiter checks and network calls it made
  ticks,        \* number of clock advances so far
  rateDoc,      \* backend: the user's document of the rateLimits collection
  serverKey,    \* backend: functions.config().openrouter.apikey is set
  bpc,          \* per client call: where it and the callable it invokes stand
  bargs,        \* per client call: [fn, auth, promptOk], the callable invoked
  bsnap,        \* per client call: the snapshot returned by rateLimitRef.get()
  bout,         \* per client call: what the callable returned or threw
  btries,       \* per client call: attempt of the withRetry loop of redesignRoom
  bseen,        \* per client call, observed: [reads, writes, fetches] counts of
                \*   the document reads, document writes and AI API calls
  cres,         \* per client call: what the client function returned or threw
  admitted,     \* observed: requests admitted since the document was last
                \*   absent or past its reset time
  utilCall,     \* harness of the pure utilities: the call made, [fn, ...]
  utilRet       \* harness of the pure utilities: what the call returned

(***************************************************************************)
(* Values                                                                  *)
(***************************************************************************)
Null == [null |-> TRUE]                 \* JavaScript null
NoSet == [set |-> FALSE]

TestKeys == { <<107, 49>>, <<107, 50>> }          \* "k1", "k2"
TestValues == { [value |-> 1], [value |-> 2] }

cacheVars == <<cache, cacheOp, lastSet>>
limVars == <<requests, maxRequests, windowMs, limOp, recorded>>
retryVars == <<retryConfig, retryPc, attempt, lastError, retryResult, outcomes, sleeps>>
roomVars == <<variant, apiKeySet, usage, pc, req, roomConfig, cacheKey, tries, wakeAt,
              result, seen, ticks>>
backVars == <<rateDoc, serverKey, bpc, bargs, bsnap, bout, btries, bseen, cres,
              admitted>>
utilVars == <<utilCall, utilRet>>
vars == <<now, cacheVars, limVars, retryVars, roomVars, backVars, utilVars>>

\* the module-level singleton: export const rateLimiter = new RateLimiter()
DefaultMaxRequests == 10
DefaultWindowMs == 60000

LimIdle ==
  /\ requests = <<>>
  /\ maxRequests = DefaultMaxRequests
  /\ windowMs = DefaultWindowMs
  /\ limOp = [op |-> "init", ret |-> FALSE]
  /\ recorded = <<>>

Min(a, b) == IF a <= b THEN a ELSE b
Max(a, b) == IF a >= b THEN a ELSE b

(***************************************************************************)
(* class Cache<T>                                                          *)
(***************************************************************************)
\* Cache.set: this.cache.set(key, {data, timestamp: Date.now(), ttl})
CacheAfterSetIfAbsent(c, key, data, ttl, t) ==
  [k \in DOMAIN c \cup {key} |->
     IF k = key /\ k \notin DOMAIN c
       THEN [data |-> data, timestamp |-> t, ttl |-> ttl] ELSE c[k]]
CacheAfterSet(c, key, data, ttl, t) ==
  [k \in DOMAIN c \cup {key} |->
     IF k = key THEN [data |-> data, timestamp |-> t, ttl |-> ttl] ELSE c[k]]

CacheWithout(c, key) == [k \in DOMAIN c \ {key} |-> c[k]]

\* the expiry test of Cache.get
ExpiredOffByOne(entry, t) == t - entry.timestamp > entry.ttl + 1
Expired(entry, t) == t - entry.timestamp > entry.ttl

\* Cache.get: the value returned
CacheGetResult(c, key, t) ==
  IF key \notin DOMAIN c THEN Null
  ELSE IF Expired(c[key], t) THEN Null
  ELSE c[key].data

\* Cache.get: the map afterwards (an expired entry is deleted)
CacheAfterGet(c, key, t) ==
  IF key \in DOMAIN c /\ Expired(c[key], t) THEN CacheWithout(c, key) ELSE c

EmptyCache == [k \in {} |-> Null]

CacheSet(key, data, ttl) ==
  /\ cache' = CacheAfterSet(cache, key, data, ttl, now)
  /\ cacheOp' = [op |-> "set", key |-> key, ret |-> Null]
  /\ lastSet' = [lastSet EXCEPT ![key] =
                   [set |-> TRUE, data |-> data, ttl |-> ttl, at |-> now]]
  /\ UNCHANGED now

CacheGet(key) ==
  /\ cache' = CacheAfterGet(cache, key, now)
  /\ cacheOp' = [op |-> "get", key |-> key, ret |-> CacheGetResult(cache, key, now)]
  /\ UNCHANGED <<lastSet, now>>

CacheClear ==
  /\ cache' = EmptyCache
  /\ cacheOp' = [op |-> "clear", key |-> <<>>, ret |-> Null]
  /\ lastSet' = [k \in TestKeys |-> NoSet]
  /\ UNCHANGED now

CacheDelete(key) ==
  /\ cache' = CacheWithout(cache, key)
  /\ cacheOp' = [op |-> "delete", key |-> key, ret |-> [deleted |-> key \in DOMAIN cache]]
  /\ lastSet' = [lastSet EXCEPT ![key] = NoSet]
  /\ UNCHANGED now

\* time passes between two calls of the harness
CacheTick ==
  /\ now < MaxNow
  /\ now' = now + 1
  /\ cacheOp' = [op |-> "tick", key |-> <<>>, ret |-> Null]
  /\ UNCHANGED <<cache, lastSet>>

CacheInit ==
  /\ cache = EmptyCache
  /\ cacheOp = [op |-> "init", key |-> <<>>, ret |-> Null]
  /\ lastSet = [k \in TestKeys |-> NoSet]

CacheNext ==
  \/ \E k \in TestKeys, v \in TestValues, ttl \in 0..MaxTtl : CacheSet(k, v, ttl)
  \/ \E k \in TestKeys : CacheGet(k)
  \/ CacheClear
  \/ \E k \in TestKeys : CacheDelete(k)
  \/ CacheTick

(***************************************************************************)
(* class RateLimiter                                                       *)
(***************************************************************************)
\* the filter predicate of canMakeRequest: time => now - time < this.windowMs
InWindowInclusive(time, t, w) == t - time <= w
InWindow(time, t, w) == t - time < w

\* this.requests after the filter of canMakeRequest
PrunedNothing(reqs, t, w) == reqs
Pruned(reqs, t, w) == SelectSeq(reqs, LAMBDA time : InWindow(time, t, w))

\* canMakeRequest: the value returned
CanMakeRequestAtLimit(reqs, t, w, n) == Len(Pruned(reqs, t, w)) <= n
CanMakeRequest(reqs, t, w, n) == Len(Pruned(reqs, t, w)) < n

SeqMin(s) == CHOOSE m \in {s[i] : i \in 1..Len(s)} : \A i \in 1..Len(s) : m <= s[i]

\* getWaitTime
GetWaitTime(reqs, t, w) ==
  IF Len(reqs) = 0 THEN 0 ELSE Max(0, w - (t - SeqMin(reqs)))

LimCanMakeRequest ==
  /\ requests' = Pruned(requests, now, windowMs)
  /\ limOp' = [op |-> "canMakeRequest",
               ret |-> CanMakeRequest(requests, now, windowMs, maxRequests)]
  /\ UNCHANGED <<now, maxRequests, windowMs, recorded>>

LimRecordRequest ==
  /\ Len(recorded) < MaxRecords
  /\ requests' = Append(requests, now)
  /\ recorded' = Append(recorded, now)
  /\ limOp' = [op |-> "recordRequest", ret |-> FALSE]
  /\ UNCHANGED <<now, maxRequests, windowMs>>

LimGetWaitTime ==
  /\ limOp' = [op |-> "getWaitTime", ret |-> GetWaitTime(requests, now, windowMs)]
  /\ UNCHANGED <<now, requests, maxRequests, windowMs, recorded>>

LimTick ==
  /\ now < MaxNow
  /\ now' = now + 1
  /\ limOp' = [op |-> "tick", ret |-> FALSE]
  /\ UNCHANGED <<requests, maxRequests, windowMs, recorded>>

LimInit ==
  /\ requests = <<>>
  /\ maxRequests \in 1..MaxLimit
  /\ windowMs \in 1..MaxWindow
  /\ limOp = [op |-> "init", ret |-> FALSE]
  /\ recorded = <<>>

LimNext ==
  \/ LimCanMakeRequest
  \/ LimRecordRequest
  \/ LimGetWaitTime
  \/ LimTick

(***************************************************************************)
(* APIError, isRetryableError, calculateDelay, withRetry                   *)
(***************************************************************************)
Undefined == [undefined |-> TRUE]       \* JavaScript undefined

\* new APIError(message, status, code, retryable); the message is kept as the
\* set of the words it contains that some test of the code looks for
APIError(words, status, code, retryable) ==
  [class |-> "APIError", words |-> words, status |-> status, code |-> code,
   retryable |-> retryable]

\* new Error(message)
PlainError(words) == [class |-> "Error", words |-> words]

\* defaultRetryOptions
DefaultMaxAttempts == 3
DefaultBaseDelay == 1000
DefaultMaxDelay == 10000
DefaultBackoffFactor == 2

defaultRetryOptions ==
  [maxAttempts |-> DefaultMaxAttempts, baseDelay |-> DefaultBaseDelay,
   maxDelay |-> DefaultMaxDelay, backoffFactor |-> DefaultBackoffFactor]

\* calculateDelay(attempt, options)
CalculateDelayFromAttempt(a, options) ==
  Min(options.baseDelay * options.backoffFactor ^ a, options.maxDelay)
CalculateDelay(a, options) ==
  Min(options.baseDelay * options.backoffFactor ^ (a - 1), options.maxDelay)

\* isRetryableError(error)
IsRetryableErrorByMessage(e) == ("network" \in e.words) \/ ("fetch" \in e.words)
IsRetryableError(e) ==
  IF e.class = "APIError" THEN e.retryable
  ELSE ("network" \in e.words) \/ ("fetch" \in e.words)

\* the test of the catch block of withRetry: rethrow, or sleep and go on
RetryRethrowsOneEarly(e, a, config) ==
  ~IsRetryableError(e) \/ a = config.maxAttempts - 1
RetryRethrowsOnlyLast(e, a, config) ==
  ~IsRetryableError(e) /\ a = config.maxAttempts
RetryRethrows(e, a, config) ==
  ~IsRetryableError(e) \/ a = config.maxAttempts

\* the operations the harness hands to withRetry resolve with a value or
\* reject with one of these errors
HarnessErrors ==
  { APIError({}, 500, "ERROR", TRUE),
    APIError({}, 400, "BAD_REQUEST", FALSE),
    APIError({"network"}, 400, "BAD_REQUEST", FALSE),
    PlainError({"network"}),
    PlainError({}) }

HarnessOutcomes ==
  {[ok |-> TRUE, value |-> v] : v \in TestValues}
    \cup {[ok |-> FALSE, error |-> e] : e \in HarnessErrors}

\* the options the harness hands to withRetry, merged over the defaults
HarnessDelayOptions ==
  { [baseDelay |-> DefaultBaseDelay, maxDelay |-> DefaultMaxDelay,
     backoffFactor |-> DefaultBackoffFactor],
    [baseDelay |-> 500, maxDelay |-> 4000, backoffFactor |-> 3],
    [baseDelay |-> 200, maxDelay |-> 300, backoffFactor |-> 1] }

RetryIdle ==
  /\ retryConfig = defaultRetryOptions
  /\ retryPc = "start"
  /\ attempt = 0
  /\ lastError = Undefined
  /\ retryResult = Undefined
  /\ outcomes = <<>>
  /\ sleeps = <<>>

RetryInit ==
  /\ retryConfig \in
       {[maxAttempts |-> m, baseDelay |-> d.baseDelay, maxDelay |-> d.maxDelay,
         backoffFactor |-> d.backoffFactor] :
          m \in 0..MaxAttempts, d \in HarnessDelayOptions}
  /\ retryPc = "start"
  /\ attempt = 0
  /\ lastError = Undefined
  /\ retryResult = Undefined
  /\ outcomes = <<>>
  /\ sleeps = <<>>

\* for (let attempt = 1; attempt <= config.maxAttempts; ...), and the throw
\* lastError! that follows the loop
RetryEnterLoop(a) ==
  /\ attempt' = a
  /\ IF a <= retryConfig.maxAttempts
       THEN retryPc' = "attempt" /\ UNCHANGED retryResult
       ELSE retryPc' = "rejected" /\ retryResult' = lastError

RetryStart ==
  /\ retryPc = "start"
  /\ RetryEnterLoop(1)
  /\ UNCHANGED <<now, retryConfig, lastError, outcomes, sleeps>>

\* try { return await operation() } catch (error) { ... }
RetryAttempt(outcome) ==
  /\ retryPc = "attempt"
  /\ outcomes' = Append(outcomes, outcome)
  /\ IF outcome.ok
       THEN /\ retryPc' = "resolved"
            /\ retryResult' = outcome.value
            /\ UNCHANGED <<lastError, sleeps>>
       ELSE /\ lastError' = outcome.error
            /\ IF RetryRethrows(outcome.error, attempt, retryConfig)
                 THEN /\ retryPc' = "rejected"
                      /\ retryResult' = outcome.error
                      /\ UNCHANGED sleeps
                 ELSE /\ retryPc' = "sleep"
                      /\ sleeps' = Append(sleeps, CalculateDelay(attempt, retryConfig))
                      /\ UNCHANGED retryResult
  /\ UNCHANGED <<now, retryConfig, attempt>>

\* the timer of sleep(delay) fires; attempt++
RetryWake ==
  /\ retryPc = "sleep"
  /\ now' = now + sleeps[Len(sleeps)]
  /\ RetryEnterLoop(attempt + 1)
  /\ UNCHANGED <<retryConfig, lastError, outcomes, sleeps>>

RetryNext ==
  \/ RetryStart
  \/ \E outcome \in HarnessOutcomes : RetryAttempt(outcome)
  \/ RetryWake

(***************************************************************************)
(* Strings, btoa, createCacheKey and the cache key of redesignRoom         *)
(***************************************************************************)
\* String.prototype.substring(0, n)
Substring(str, n) == SubSeq(str, 1, Min(n, Len(str)))

RECURSIVE Repeat(_, _)
Repeat(c, n) == IF n = 0 THEN <<>> ELSE <<c>> \o Repeat(c, n - 1)

RECURSIVE Join(_, _)
\* Array.prototype.join(sep)
Join(parts, sep) ==
  IF Len(parts) = 0 THEN <<>>
  ELSE IF Len(parts) = 1 THEN parts[1]
  ELSE parts[1] \o sep \o Join(Tail(parts), sep)

Colon == <<58>>

\* createCacheKey(prefix, ...parts) = `${prefix}:${parts.join(':')}`
CreateCacheKey(prefix, parts) == prefix \o Colon \o Join(parts, Colon)

\* the character that stands for a 6-bit value in base64: A-Z a-z 0-9 + /
Base64Char(v) ==
  IF v < 26 THEN 65 + v
  ELSE IF v < 52 THEN 97 + (v - 26)
  ELSE IF v < 62 THEN 48 + (v - 52)
  ELSE IF v = 62 THEN 43 ELSE 47

Base64Pad == 61          \* "="

\* btoa throws InvalidCharacterError on a character above U+00FF
BtoaThrows(str) == \E i \in 1..Len(str) : str[i] > 255

RECURSIVE Btoa(_)
\* btoa(str), for a string btoa accepts
Btoa(str) ==
  IF Len(str) = 0 THEN <<>>
  ELSE IF Len(str) = 1 THEN
    << Base64Char(str[1] \div 4), Base64Char((str[1] % 4) * 16), Base64Pad, Base64Pad >>
  ELSE IF Len(str) = 2 THEN
    << Base64Char(str[1] \div 4),
       Base64Char((str[1] % 4) * 16 + str[2] \div 16),
       Base64Char((str[2] % 16) * 4), Base64Pad >>
  ELSE
    << Base64Char(str[1] \div 4),
       Base64Char((str[1] % 4) * 16 + str[2] \div 16),
       Base64Char((str[2] % 16) * 4 + str[3] \div 64),
       Base64Char(str[3] % 64) >> \o Btoa(SubSeq(str, 4, Len(str)))

\* the two redesignRoom services of the repository
Firebase == "firebase"         \* src/services/geminiServices.tsx
OpenRouter == "openrouter"     \* the client-side variant
Variants == {Firebase, OpenRouter}

ImagePrefixLenFirebase == 100      \* generateImageHash: substring(0, 100)
ImagePrefixLenOpenRouter == 1000   \* generateImageHash: substring(0, 1000)
ImageHashLen == 16                 \* generateImageHash: substring(0, 16) of the hex digest
PromptPrefixLen == 100             \* createOptimizedPrompt: substring(0, 100)
PromptKeyLen == 20                 \* redesignRoom: btoa(...).substring(0, 20)

\* the images the callers upload, as base64 text: image 2 differs from image 1
\* in its first character, image 3 only in character 101, image 4 only in
\* character 1001
Images == 1..4

ImageData(i) ==
  [n \in 1..(ImagePrefixLenOpenRouter + 1) |->
     IF \/ i = 2 /\ n = 1
        \/ i = 3 /\ n = ImagePrefixLenFirebase + 1
        \/ i = 4 /\ n = ImagePrefixLenOpenRouter + 1
     THEN 66 ELSE 65]

\* crypto.subtle.digest('SHA-256', data) as 64 hex digits, cut to 16: SHA-256
\* is taken to be free of collisions on the images of the model, and the
\* digest of a text is written as 15 zeros and the number of the first image
\* that has this text as its first 1000 characters
Sha256Hex16(data) ==
  LET first == CHOOSE i \in Images :
                 /\ Substring(ImageData(i), ImagePrefixLenOpenRouter) = data
                 /\ \A j \in Images :
                      Substring(ImageData(j), ImagePrefixLenOpenRouter) = data => i <= j
  IN  Repeat(48, ImageHashLen - 1) \o <<48 + first>>

\* generateImageHash(base64Data)
GenerateImageHash(v, base64Data) ==
  IF v = Firebase THEN Substring(base64Data, ImagePrefixLenFirebase)
  ELSE Sha256Hex16(Substring(base64Data, ImagePrefixLenOpenRouter))

PromptHead == <<84, 114, 97, 110, 115, 102, 111, 114, 109, 32, 116, 104, 105, 115,
                32, 114, 111, 111, 109, 32, 119, 105, 116, 104, 58, 32>>
PromptTail == <<46, 32, 75, 101, 101, 112, 32, 108, 97, 121, 111, 117, 116, 44, 32,
                99, 104, 97, 110, 103, 101, 32, 115, 116, 121, 108, 101, 32, 111,
                110, 108, 121, 46>>

\* createOptimizedPrompt(userPrompt)
CreateOptimizedPrompt(userPrompt) ==
  PromptHead \o Substring(userPrompt, PromptPrefixLen) \o PromptTail

\* the text redesignRoom hands to btoa, and sends to the model
PromptSent(v, prompt) == IF v = Firebase THEN prompt ELSE CreateOptimizedPrompt(prompt)

RoomPrefix == <<114, 111, 111, 109, 45, 114, 101, 100, 101, 115, 105, 103, 110>>

\* redesignRoom: cacheKey
RoomCacheKey(v, image, prompt) ==
  CreateCacheKey(RoomPrefix,
                 << GenerateImageHash(v, ImageData(image)),
                    Substring(Btoa(PromptSent(v, prompt)), PromptKeyLen) >>)

(***************************************************************************)
(* redesignRoom                                                            *)
(***************************************************************************)
Procs == {1, 2}

DayMs == 86400000              \* toISOString().split('T')[0] changes every 24 h
DAILY_REQUEST_LIMIT == 5
DefaultCacheTimeMs == 86400000
DefaultMaxRetriesFirebase == 2
DefaultMaxRetriesOpenRouter == 1

\* new Date().toISOString().split('T')[0], as a day number
Today(t) == t \div DayMs

NoItem == [item |-> FALSE]

\* getDailyUsage(): the usage returned, which is also what localStorage holds
\* afterwards
GetDailyUsage(store, t) ==
  IF store.item /\ store.date = Today(t) THEN store
  ELSE [item |-> TRUE, date |-> Today(t), count |-> 0]

\* incrementDailyUsage(): localStorage afterwards
IncrementDailyUsage(store, t) ==
  [GetDailyUsage(store, t) EXCEPT !.count = @ + 1]

\* checkDailyQuota(): it throws
QuotaExceededAbove(store, t) == GetDailyUsage(store, t).count > DAILY_REQUEST_LIMIT
QuotaExceeded(store, t) == GetDailyUsage(store, t).count >= DAILY_REQUEST_LIMIT

DailyQuotaError == APIError({"limit", "quota"}, 429, "DAILY_QUOTA_EXCEEDED", FALSE)
RateLimitError == APIError({"limit"}, 429, "RATE_LIMIT_EXCEEDED", TRUE)
MissingKeyError == APIError({}, 401, "MISSING_API_KEY", FALSE)

\* btoa's InvalidCharacterError
InvalidCharacterError == [class |-> "DOMException", words |-> {}]

\* DEFAULT_REDESIGN_OPTIONS
DefaultRedesignOptions(v) ==
  [useCache |-> TRUE, cacheTimeMs |-> DefaultCacheTimeMs,
   maxRetries |-> IF v = Firebase THEN DefaultMaxRetriesFirebase
                  ELSE DefaultMaxRetriesOpenRouter]

\* { ...DEFAULT_REDESIGN_OPTIONS, ...options }: given names the keys of options
MergeOptions(v, options) ==
  [useCache |-> IF "useCache" \in options.given THEN options.useCache
                ELSE DefaultRedesignOptions(v).useCache,
   cacheTimeMs |-> IF "cacheTimeMs" \in options.given THEN options.cacheTimeMs
                   ELSE DefaultRedesignOptions(v).cacheTimeMs,
   maxRetries |-> IF "maxRetries" \in options.given THEN options.maxRetries
                  ELSE DefaultRedesignOptions(v).maxRetries]

Options(given, useCache, cacheTimeMs, maxRetries) ==
  [given |-> given, useCache |-> useCache, cacheTimeMs |-> cacheTimeMs,
   maxRetries |-> maxRetries]

\* the options the callers pass: none, { useCache: false }, { maxRetries }
RoomOptions ==
  { Options({}, TRUE, 0, 0), Options({"useCache"}, FALSE, 0, 0),
    Options({"maxRetries"}, TRUE, 0, MaxRetries) }

\* the prompts the callers pass: "b", sixteen "a", and fifteen "a" and a "b"
RoomPrompts == { <<98>>, Repeat(97, 16), Repeat(97, 15) \o <<98>> }

RoomImages == {1, 2}

\* the calls the callers make: without options, image 1 with each prompt and
\* image 2 with "b"; with options, image 1 with "b"
RoomRequests ==
  { r \in [image : RoomImages, prompt : RoomPrompts, options : RoomOptions] :
      /\ r.image = 1 \/ r.prompt = <<98>>
      /\ r.options.given = {} \/ (r.image = 1 /\ r.prompt = <<98>>) }

\* RoomCacheKey, tabulated over the arguments the callers pass
RoomCacheKeys ==
  [v \in Variants |-> [i \in RoomImages |-> [q \in RoomPrompts |->
     RoomCacheKey(v, i, q)]]]

RECURSIVE Decimal(_)
\* String(n) for a number n >= 0
Decimal(n) == IF n < 10 THEN <<48 + n>> ELSE Decimal(n \div 10) \o <<48 + (n % 10)>>

\* redesignRoom: const cacheKey = createCacheKey('room-redesign', imageHash, ...)
CacheKeyOfStamped(v, r) == RoomCacheKeys[v][r.image][r.prompt] \o Colon \o Decimal(now)
CacheKeyOf(v, r) == RoomCacheKeys[v][r.image][r.prompt]

\* the image the service hands back for a request: the design made from the
\* image and the prompt text that were sent
Artifact(v, r) == [image |-> r.image, sent |-> PromptSent(v, r.prompt)]

\* what one run of the body of generateImage / generateDesign can end in
RawOutcomes(v) ==
  IF v = Firebase
  THEN { [kind |-> "ok"], [kind |-> "noSuggestions"], [kind |-> "noContext"] }
         \cup { [kind |-> "functions", code |-> c] :
                  c \in {"functions/unauthenticated", "functions/resource-exhausted",
                         "functions/invalid-argument", "functions/internal"} }
  ELSE { [kind |-> "ok"], [kind |-> "noText"], [kind |-> "noContext"],
         [kind |-> "notError"] }
         \cup { [kind |-> "http", status |-> st] : st \in {429, 503} }
         \cup { [kind |-> "thrown", error |-> PlainError(w)] :
                  w \in {{"fetch"}, {"quota"}, {}} }

\* the outcomes the modelled service produces: success, a failure that is
\* retried, and a failure that is not
RoomOutcomes(v) ==
  IF v = Firebase
  THEN { [kind |-> "ok"], [kind |-> "noSuggestions"],
         [kind |-> "functions", code |-> "functions/resource-exhausted"] }
  ELSE { [kind |-> "ok"], [kind |-> "http", status |-> 503],
         [kind |-> "http", status |-> 429] }

\* generateDesign: the APIError its body or its catch block throws
FirebaseError(raw) ==
  IF raw.kind = "noSuggestions" THEN APIError({}, 500, "GENERATION_FAILED", TRUE)
  ELSE IF raw.kind = "noContext" THEN APIError({}, 500, "CANVAS_ERROR", TRUE)
  ELSE IF raw.code = "functions/unauthenticated"
    THEN APIError({}, 401, "UNAUTHENTICATED", FALSE)
  ELSE IF raw.code = "functions/resource-exhausted"
    THEN APIError({"limit"}, 429, "QUOTA_EXCEEDED", FALSE)
  ELSE IF raw.code = "functions/invalid-argument"
    THEN APIError({}, 400, "INVALID_INPUT", FALSE)
  ELSE APIError({}, 500, "UNKNOWN_ERROR", TRUE)

\* generateImage: the APIError its body or its catch block throws
OpenRouterError(raw) ==
  IF raw.kind = "http"
    THEN APIError({}, raw.status, "OPENROUTER_API_ERROR", raw.status >= 500)
  ELSE IF raw.kind = "noText" THEN APIError({}, 500, "NO_RESPONSE_GENERATED", TRUE)
  ELSE IF raw.kind = "noContext" THEN APIError({}, 500, "CANVAS_ERROR", TRUE)
  ELSE IF raw.kind = "notError" THEN APIError({}, 500, "UNKNOWN_ERROR", TRUE)
  ELSE IF raw.error.words \cap {"quota", "limit"} # {}
    THEN APIError({"quota"}, 429, "QUOTA_EXCEEDED", TRUE)
  ELSE IF raw.error.words \cap {"network", "fetch"} # {}
    THEN APIError({}, 503, "NETWORK_ERROR", TRUE)
  ELSE APIError({}, 500, "API_ERROR", TRUE)

OperationError(v, raw) == IF v = Firebase THEN FirebaseError(raw) ELSE OpenRouterError(raw)

\* withRetry(generateImage, { maxAttempts: config.maxRetries }): its config
RoomRetryConfig(cfg) == [defaultRetryOptions EXCEPT !.maxAttempts = cfg.maxRetries]

Returned(value) == [kind |-> "value", value |-> value]
Thrown(error) == [kind |-> "error", error |-> error]
Pending == [kind |-> "pending"]

NothingSeen == [quota |-> 0, limiter |-> 0, network |-> 0, cacheHit |-> FALSE]

RoomIdle ==
  /\ variant = Firebase
  /\ apiKeySet = TRUE
  /\ usage = NoItem
  /\ pc = [p \in Procs |-> "idle"]
  /\ req = [p \in Procs |-> Undefined]
  /\ roomConfig = [p \in Procs |-> Undefined]
  /\ cacheKey = [p \in Procs |-> <<>>]
  /\ tries = [p \in Procs |-> 0]
  /\ wakeAt = [p \in Procs |-> 0]
  /\ result = [p \in Procs |-> Pending]
  /\ seen = [p \in Procs |-> NothingSeen]
  /\ ticks = 0

\* what localStorage can hold when the page is opened (on day 0): nothing,
\* or the count of earlier requests of the day
RoomUsages ==
  { NoItem } \cup { [item |-> TRUE, date |-> 0, count |-> c] :
                      c \in {DAILY_REQUEST_LIMIT - 1, DAILY_REQUEST_LIMIT} }

\* the state when the first of the modelled calls is made: nothing cached,
\* and the limiter empty, one short of full, or full with the records of
\* earlier calls that failed
RoomInitAny ==
  /\ now = 0
  /\ cache = EmptyCache
  /\ cacheOp = [op |-> "init", key |-> <<>>, ret |-> Null]
  /\ lastSet = [k \in TestKeys |-> NoSet]
  /\ maxRequests = DefaultMaxRequests
  /\ windowMs = DefaultWindowMs
  /\ limOp = [op |-> "init", ret |-> FALSE]
  /\ variant \in Variants
  /\ IF variant = Firebase
       THEN apiKeySet = TRUE /\ usage = NoItem /\ requests = <<>>
       ELSE /\ apiKeySet \in BOOLEAN
            /\ usage \in RoomUsages
            /\ requests \in {<<>>, Repeat(0, DefaultMaxRequests - 1),
                             Repeat(0, DefaultMaxRequests)}
  /\ recorded = requests
  /\ pc = [p \in Procs |-> "idle"]
  /\ req = [p \in Procs |-> Undefined]
  /\ roomConfig = [p \in Procs |-> Undefined]
  /\ cacheKey = [p \in Procs |-> <<>>]
  /\ tries = [p \in Procs |-> 0]
  /\ wakeAt = [p \in Procs |-> 0]
  /\ result = [p \in Procs |-> Pending]
  /\ seen = [p \in Procs |-> NothingSeen]
  /\ ticks = 0

\* the same, a build without API key starting with nothing stored and an
\* empty limiter
RoomInit == RoomInitAny /\ (apiKeySet \/ (usage = NoItem /\ requests = <<>>))

FailWrapped(p, error) ==
  /\ pc' = [pc EXCEPT ![p] = "failed"]
  /\ result' = [result EXCEPT ![p] = Thrown(PlainError({"failed"}))]
Fail(p, error) ==
  /\ pc' = [pc EXCEPT ![p] = "failed"]
  /\ result' = [result EXCEPT ![p] = Thrown(error)]

Return(p, value) ==
  /\ pc' = [pc EXCEPT ![p] = "done"]
  /\ result' = [result EXCEPT ![p] = Returned(value)]

\* redesignRoom is called: config, checkDailyQuota() (OpenRouter variant),
\* up to the await of generateImageHash
Start(p, r) ==
  /\ pc[p] = "idle"
  /\ \A q \in Procs : q < p => pc[q] # "idle"    \* calls are numbered as made
  /\ req' = [req EXCEPT ![p] = r]
  /\ roomConfig' = [roomConfig EXCEPT ![p] = MergeOptions(variant, r.options)]
  /\ IF variant = OpenRouter
       THEN /\ usage' = GetDailyUsage(usage, now)
            /\ seen' = [seen EXCEPT ![p].quota = @ + 1]
            /\ IF QuotaExceeded(usage, now)
                 THEN Fail(p, DailyQuotaError)
                 ELSE pc' = [pc EXCEPT ![p] = "hashing"] /\ UNCHANGED result
       ELSE /\ pc' = [pc EXCEPT ![p] = "hashing"]
            /\ UNCHANGED <<usage, seen, result>>
  /\ UNCHANGED <<now, cacheVars, limVars, retryVars, variant, apiKeySet, cacheKey,
                 tries, wakeAt, ticks>>

\* withRetry reaches attempt a of its loop and calls the operation, which runs
\* up to its network call: the new pc, result and seen of call p
CallOperation(p, a, seenNow) ==
  /\ tries' = [tries EXCEPT ![p] = a]
  /\ IF a > RoomRetryConfig(roomConfig[p]).maxAttempts
       THEN Fail(p, Undefined) /\ seen' = seenNow
     ELSE IF variant = OpenRouter /\ ~apiKeySet
       THEN Fail(p, MissingKeyError) /\ seen' = seenNow
     ELSE /\ pc' = [pc EXCEPT ![p] = "fetching"]
          /\ seen' = [seenNow EXCEPT ![p].network = @ + 1]
          /\ UNCHANGED result

\* generateImageHash has resolved: cacheKey, the cache look-up, and then
\* checkRateLimit() (OpenRouter variant) or the first attempt of withRetry
\* (Firebase variant)
Lookup(p) ==
  /\ pc[p] = "hashing"
  /\ UNCHANGED <<now, cacheOp, lastSet, maxRequests, windowMs, limOp, retryVars,
                 variant, apiKeySet, usage, req, roomConfig, wakeAt, ticks>>
  /\ IF BtoaThrows(PromptSent(variant, req[p].prompt))
       THEN /\ Fail(p, InvalidCharacterError)
            /\ UNCHANGED <<cache, requests, recorded, cacheKey, tries, seen>>
       ELSE
         LET key == CacheKeyOf(variant, req[p])
             cached == IF roomConfig[p].useCache
                         THEN CacheGetResult(cache, key, now) ELSE Null
         IN  /\ cacheKey' = [cacheKey EXCEPT ![p] = key]
             /\ cache' = IF roomConfig[p].useCache
                           THEN CacheAfterGet(cache, key, now) ELSE cache
             /\ IF cached # Null
                  THEN /\ Return(p, cached)
                       /\ seen' = [seen EXCEPT ![p].cacheHit = TRUE]
                       /\ UNCHANGED <<requests, recorded, tries>>
                ELSE IF variant = OpenRouter
                  THEN /\ seen' = [seen EXCEPT ![p].limiter = @ + 1]
                       /\ UNCHANGED tries
                       /\ IF CanMakeRequest(requests, now, windowMs, maxRequests)
                            THEN /\ requests' = Append(Pruned(requests, now, windowMs), now)
                                 /\ recorded' = Append(recorded, now)
                                 /\ pc' = [pc EXCEPT ![p] = "admitted"]
                                 /\ UNCHANGED result
                            ELSE /\ requests' = Pruned(requests, now, windowMs)
                                 /\ UNCHANGED recorded
                                 /\ Fail(p, RateLimitError)
                ELSE /\ CallOperation(p, 1, seen)
                     /\ UNCHANGED <<requests, recorded>>

\* OpenRouter variant: checkRateLimit() has resolved; withRetry makes its
\* first attempt
Invoke(p) ==
  /\ pc[p] = "admitted"
  /\ CallOperation(p, 1, seen)
  /\ UNCHANGED <<now, cacheVars, limVars, retryVars, variant, apiKeySet, usage, req,
                 roomConfig, cacheKey, wakeAt, ticks>>

\* the network call of the current attempt ends; on success redesignRoom
\* counts the request, caches the result and returns it, on failure the catch
\* block of withRetry rethrows or sleeps
Respond(p, raw) ==
  /\ pc[p] = "fetching"
  /\ UNCHANGED <<now, cacheOp, lastSet, limVars, retryVars, variant, apiKeySet, req,
                 roomConfig, cacheKey, tries, seen, ticks>>
  /\ IF raw.kind = "ok"
       THEN /\ Return(p, Artifact(variant, req[p]))
            /\ usage' = IF variant = OpenRouter
                          THEN IncrementDailyUsage(usage, now) ELSE usage
            /\ cache' = IF roomConfig[p].useCache /\ roomConfig[p].cacheTimeMs # 0
                          THEN CacheAfterSet(cache, cacheKey[p], Artifact(variant, req[p]),
                                             roomConfig[p].cacheTimeMs, now)
                          ELSE cache
            /\ UNCHANGED wakeAt
       ELSE /\ UNCHANGED <<usage, cache>>
            /\ IF RetryRethrows(OperationError(variant, raw), tries[p],
                                RoomRetryConfig(roomConfig[p]))
                 THEN Fail(p, OperationError(variant, raw)) /\ UNCHANGED wakeAt
                 ELSE /\ pc' = [pc EXCEPT ![p] = "sleeping"]
                      /\ wakeAt' = [wakeAt EXCEPT ![p] =
                           now + CalculateDelay(tries[p], RoomRetryConfig(roomConfig[p]))]
                      /\ UNCHANGED result

\* the timer of the sleep fires; withRetry makes its next attempt
Wake(p) ==
  /\ pc[p] = "sleeping"
  /\ now' = Max(now, wakeAt[p])
  /\ CallOperation(p, tries[p] + 1, seen)
  /\ UNCHANGED <<cacheVars, limVars, retryVars, variant, apiKeySet, usage, req,
                 roomConfig, cacheKey, wakeAt, ticks>>

\* time passes: a rate-limiter window, or a day and a millisecond, which
\* also outlasts the default cache time
RoomTickSteps == {DefaultWindowMs, DayMs + 1}

RoomTick(d) ==
  /\ ticks < MaxTicks
  /\ ticks' = ticks + 1
  /\ now' = now + d
  /\ UNCHANGED <<cacheVars, limVars, retryVars, variant, apiKeySet, usage, pc, req,
                 roomConfig, cacheKey, tries, wakeAt, result, seen>>

RoomNext ==
  \/ \E p \in Procs, r \in RoomRequests : Start(p, r)
  \/ \E p \in Procs : Lookup(p)
  \/ \E p \in Procs : Invoke(p)
  \/ \E p \in Procs : \E raw \in RoomOutcomes(variant) : Respond(p, raw)
  \/ \E p \in Procs : Wake(p)
  \/ \E d \in RoomTickSteps : RoomTick(d)

\* redesignRoom called with every kind of argument, one call after the other:
\* a prompt that is Latin-1 ("b") or not (the euro sign), and the options of
\* RoomOptions or { maxRetries: 0 }
SerialPrompts == { <<98>>, <<8364>> }

SerialOptions == RoomOptions \cup { Options({"maxRetries"}, TRUE, 0, 0) }

SerialRequests == [image : {1}, prompt : SerialPrompts, options : SerialOptions]

\* the first call has returned or thrown
FirstCallOver == pc[1] \in {"done", "failed"}

\* the calls are made one after the other, and the network call can end in
\* every way the code distinguishes
SerialNext ==
  \/ \E p \in Procs, r \in SerialRequests : (p = 1 \/ FirstCallOver) /\ Start(p, r)
  \/ \E p \in Procs : Lookup(p)
  \/ \E p \in Procs : Invoke(p)
  \/ \E p \in Procs : \E raw \in RawOutcomes(variant) : Respond(p, raw)
  \/ \E p \in Procs : Wake(p)
  \/ \E d \in RoomTickSteps : RoomTick(d)

(***************************************************************************)
(* Backend: the callable functions generateRoomDesign and                  *)
(* getUserUsageStats, and the client functions that invoke them            *)
(***************************************************************************)
BackCalls == {1, 2}

BackLimit == 10
OneDay == 86400000

Generate == "generateRoomDesign"
Stats == "getUserUsageStats"

NoDoc == [exists |-> FALSE, count |-> 0, resetAt |-> 0]
Doc(count, resetAt) == [exists |-> TRUE, count |-> count, resetAt |-> resetAt]

\* checkRateLimit: the value it returns, decided on the snapshot it read
WithinLimit(snap, t) ==
  \/ ~snap.exists
  \/ t > snap.resetAt
  \/ snap.count < BackLimit

\* checkRateLimit: it replaces the document (set) rather than incrementing it
ResetsDoc(snap, t) == ~snap.exists \/ t > snap.resetAt

\* checkRateLimit: the document after its write, decided on the snapshot
DocAfterCheck(snap, doc, t) ==
  IF ResetsDoc(snap, t) THEN Doc(1, t + OneDay)
  ELSE IF snap.count < BackLimit THEN [doc EXCEPT !.count = @ + 1]
  ELSE doc

\* getUserUsageStats: the stats it returns for the snapshot it read
StatsOf(snap, t) ==
  IF ~snap.exists \/ t > snap.resetAt
    THEN [count |-> 0, limit |-> BackLimit, resetAt |-> t + OneDay]
    ELSE [count |-> snap.count, limit |-> BackLimit, resetAt |-> snap.resetAt]

\* the client getUserUsageStats: the stats its catch block returns
DefaultStats(t) == [count |-> 0, limit |-> BackLimit, resetAt |-> t + OneDay]

HttpsError(code) == [kind |-> "HttpsError", code |-> code]
BackReturned(value) == [kind |-> "data", value |-> value]
BackPending == [kind |-> "pending"]

\* the error the Firebase client SDK rejects with for an HttpsError
FunctionsError(err) ==
  [kind |-> "functions",
   code |-> CASE err.code = "unauthenticated" -> "functions/unauthenticated"
              [] err.code = "resource-exhausted" -> "functions/resource-exhausted"
              [] err.code = "invalid-argument" -> "functions/invalid-argument"
              [] err.code = "failed-precondition" -> "functions/failed-precondition"
              [] OTHER -> "functions/internal"]

\* how the call to the OpenRouter API inside generateRoomDesign can end
BackOutcomes == {"ok", "notOk", "noSuggestions", "throws"}

BackArgs == [fn : {Generate, Stats}, auth : BOOLEAN, promptOk : BOOLEAN]
NoReads == [reads |-> 0, writes |-> 0, fetches |-> 0]

\* the documents the collection can hold when the modelled calls begin: none,
\* or that of a user one request short of the limit, or at the limit
BackDocs == { NoDoc } \cup { Doc(c, OneDay) : c \in {BackLimit - 1, BackLimit} }

BackIdle ==
  /\ rateDoc = NoDoc
  /\ serverKey = TRUE
  /\ bpc = [c \in BackCalls |-> "idle"]
  /\ bargs = [c \in BackCalls |-> Undefined]
  /\ bsnap = [c \in BackCalls |-> NoDoc]
  /\ bout = [c \in BackCalls |-> BackPending]
  /\ btries = [c \in BackCalls |-> 0]
  /\ bseen = [c \in BackCalls |-> NoReads]
  /\ cres = [c \in BackCalls |-> Pending]
  /\ admitted = 0

BackInit ==
  /\ rateDoc \in BackDocs
  /\ serverKey \in BOOLEAN
  /\ bpc = [c \in BackCalls |-> "idle"]
  /\ bargs = [c \in BackCalls |-> Undefined]
  /\ bsnap = [c \in BackCalls |-> NoDoc]
  /\ bout = [c \in BackCalls |-> BackPending]
  /\ btries = [c \in BackCalls |-> 0]
  /\ bseen = [c \in BackCalls |-> NoReads]
  /\ cres = [c \in BackCalls |-> Pending]
  /\ admitted = rateDoc.count

\* the callable is entered: if (!context.auth) throw, else rateLimitRef.get()
BackEnterUnchecked(c) ==
  /\ bpc' = [bpc EXCEPT ![c] = "getting"]
  /\ bout' = [bout EXCEPT ![c] = BackPending]
BackEnter(c) ==
  IF ~bargs'[c].auth
    THEN /\ bpc' = [bpc EXCEPT ![c] = "responded"]
         /\ bout' = [bout EXCEPT ![c] = HttpsError("unauthenticated")]
    ELSE /\ bpc' = [bpc EXCEPT ![c] = "getting"]
         /\ bout' = [bout EXCEPT ![c] = BackPending]

\* the client calls redesignRoom (whose first attempt invokes
\* generateRoomDesign) or getUserUsageStats
BackCall(c, args) ==
  /\ bpc[c] = "idle"
  /\ \A d \in BackCalls : d < c => bpc[d] # "idle"
  /\ bargs' = [bargs EXCEPT ![c] = args]
  /\ btries' = [btries EXCEPT ![c] = 1]
  /\ BackEnter(c)
  /\ UNCHANGED <<now, rateDoc, serverKey, bsnap, bseen, cres, admitted>>

\* rateLimitRef.get() resolves; getUserUsageStats returns its stats
BackGet(c) ==
  /\ bpc[c] = "getting"
  /\ bsnap' = [bsnap EXCEPT ![c] = rateDoc]
  /\ bseen' = [bseen EXCEPT ![c].reads = @ + 1]
  /\ IF bargs[c].fn = Stats
       THEN /\ bpc' = [bpc EXCEPT ![c] = "responded"]
            /\ bout' = [bout EXCEPT ![c] = BackReturned(StatsOf(rateDoc, now))]
       ELSE /\ bpc' = [bpc EXCEPT ![c] = "checking"]
            /\ UNCHANGED bout
  /\ UNCHANGED <<now, rateDoc, serverKey, bargs, btries, cres, admitted>>

\* checkRateLimit decides on its snapshot and writes; generateRoomDesign then
\* validates its input, reads the API key and calls the OpenRouter API
BackCheck(c) ==
  /\ bpc[c] = "checking"
  /\ UNCHANGED <<now, serverKey, bargs, bsnap, btries, cres>>
  /\ rateDoc' = DocAfterCheck(bsnap[c], rateDoc, now)
  /\ IF ~WithinLimit(bsnap[c], now)
       THEN /\ bpc' = [bpc EXCEPT ![c] = "responded"]
            /\ bout' = [bout EXCEPT ![c] = HttpsError("resource-exhausted")]
            /\ UNCHANGED <<bseen, admitted>>
       ELSE /\ admitted' = IF ResetsDoc(rateDoc, now) THEN 1 ELSE admitted + 1
            /\ IF ~bargs[c].promptOk
                 THEN /\ bpc' = [bpc EXCEPT ![c] = "responded"]
                      /\ bout' = [bout EXCEPT ![c] = HttpsError("invalid-argument")]
                      /\ bseen' = [bseen EXCEPT ![c].writes = @ + 1]
               ELSE IF ~serverKey
                 THEN /\ bpc' = [bpc EXCEPT ![c] = "responded"]
                      /\ bout' = [bout EXCEPT ![c] = HttpsError("failed-precondition")]
                      /\ bseen' = [bseen EXCEPT ![c].writes = @ + 1]
               ELSE /\ bpc' = [bpc EXCEPT ![c] = "fetching"]
                    /\ bseen' = [bseen EXCEPT ![c].writes = @ + 1,
                                              ![c].fetches = @ + 1]
                    /\ UNCHANGED bout

\* the call to the OpenRouter API ends
BackRespond(c, outcome) ==
  /\ bpc[c] = "fetching"
  /\ bpc' = [bpc EXCEPT ![c] = "responded"]
  /\ bout' = [bout EXCEPT ![c] = IF outcome = "ok" THEN BackReturned("suggestions")
                                   ELSE HttpsError("internal")]
  /\ UNCHANGED <<now, rateDoc, serverKey, bargs, bsnap, btries, bseen, cres, admitted>>

\* the client receives the response: getUserUsageStats returns the stats or,
\* from its catch block, the default stats; generateDesign returns the design
\* or throws the APIError of its catch block, which withRetry rethrows or
\* sleeps on before the next attempt
BackSettle(c) ==
  /\ bpc[c] = "responded"
  /\ UNCHANGED <<rateDoc, serverKey, bargs, bsnap, bseen, admitted>>
  /\ IF bargs[c].fn = Stats
       THEN /\ cres' = [cres EXCEPT ![c] =
                 Returned(IF bout[c].kind = "data" THEN bout[c].value
                          ELSE DefaultStats(now))]
            /\ bpc' = [bpc EXCEPT ![c] = "settled"]
            /\ UNCHANGED <<now, bout, btries>>
     ELSE IF bout[c].kind = "data"
       THEN /\ cres' = [cres EXCEPT ![c] = Returned("design")]
            /\ bpc' = [bpc EXCEPT ![c] = "settled"]
            /\ UNCHANGED <<now, bout, btries>>
     ELSE
       LET error == FirebaseError(FunctionsError(bout[c]))
           cfg == RoomRetryConfig(DefaultRedesignOptions(Firebase))
       IN  IF RetryRethrows(error, btries[c], cfg)
             THEN /\ cres' = [cres EXCEPT ![c] = Thrown(error)]
                  /\ bpc' = [bpc EXCEPT ![c] = "settled"]
                  /\ UNCHANGED <<now, bout, btries>>
             ELSE /\ now' = now + CalculateDelay(btries[c], cfg)
                  /\ btries' = [btries EXCEPT ![c] = @ + 1]
                  /\ BackEnter(c)
                  /\ UNCHANGED cres

\* a day and a millisecond pass
BackTick ==
  /\ now \div OneDay < MaxTicks
  /\ now' = now + OneDay + 1
  /\ UNCHANGED backVars

BackNext ==
  \/ \E c \in BackCalls, args \in BackArgs : BackCall(c, args)
  \/ \E c \in BackCalls : BackGet(c)
  \/ \E c \in BackCalls : BackCheck(c)
  \/ \E c \in BackCalls, outcome \in BackOutcomes : BackRespond(c, outcome)
  \/ \E c \in BackCalls : BackSettle(c)
  \/ BackTick

(***************************************************************************)
(* Pure utilities: new APIError, validateFile, getFileExtension,           *)
(* createCacheKey                                                          *)
(***************************************************************************)
\* a property read, obj[name]: the value, or undefined
Some(value) == [defined |-> TRUE, value |-> value]
None == [defined |-> FALSE]

\* error[name] for an error object; message is modelled by the field words
GetProp(error, name) ==
  IF name = "message" THEN Some(error.words)
  ELSE IF name \in DOMAIN error THEN Some(error[name])
  ELSE None

\* error instanceof Error: class APIError extends Error
InstanceOfError(error) == error.class \in {"Error", "APIError"}

\* new APIError(message, status, code) leaves retryable at its default
NewAPIError(args) ==
  APIError(args.message, args.status, args.code,
           IF args.given THEN args.retryable ELSE FALSE)

\* String.prototype.toLowerCase, on ASCII
ToLowerCase(str) ==
  [i \in 1..Len(str) |-> IF str[i] >= 65 /\ str[i] <= 90 THEN str[i] + 32 ELSE str[i]]

\* String.prototype.lastIndexOf(c): the 0-based index, or -1
LastIndexOf(str, c) ==
  IF \E i \in 1..Len(str) : str[i] = c
    THEN (CHOOSE i \in 1..Len(str) :
            str[i] = c /\ \A j \in (i + 1)..Len(str) : str[j] # c) - 1
    ELSE -1

\* String.prototype.substring(start): a negative start counts as 0
SubstringFrom(str, start) == SubSeq(str, Max(start, 0) + 1, Len(str))

Dot == 46

\* getFileExtension
GetFileExtension(filename) ==
  SubstringFrom(ToLowerCase(filename), LastIndexOf(filename, Dot))

TenMB == 10485760

ExtJpg == <<46, 106, 112, 103>>             \* ".jpg"
ExtJpeg == <<46, 106, 112, 101, 103>>       \* ".jpeg"
ExtPng == <<46, 112, 110, 103>>             \* ".png"
ExtWebp == <<46, 119, 101, 98, 112>>        \* ".webp"
ExtPdf == <<46, 112, 100, 102>>             \* ".pdf"

\* defaultImageValidation
defaultImageValidation ==
  [maxSizeBytes |-> TenMB,
   allowedMimeTypes |-> {"image/jpeg", "image/png", "image/webp"},
   allowedExtensions |-> {ExtJpg, ExtJpeg, ExtPng, ExtWebp}]

\* validateFile: config = { ...defaultImageValidation, ...options }
ValidationConfig(options) ==
  [k \in DOMAIN defaultImageValidation |->
     IF k \in options.given THEN options[k] ELSE defaultImageValidation[k]]

\* validateFile: the checks in the order MIME type, size, extension
ValidateFileTypeFirst(file, options) ==
  LET config == ValidationConfig(options)
      fileExtension == ToLowerCase(GetFileExtension(file.name))
      details == [size |-> file.size, type |-> file.type, extension |-> fileExtension]
  IN  IF file.type \notin config.allowedMimeTypes
        THEN [isValid |-> FALSE, details |-> details,
              error |-> [check |-> "type", allowed |-> config.allowedMimeTypes]]
      ELSE IF file.size > config.maxSizeBytes
        THEN [isValid |-> FALSE, details |-> details,
              error |-> [check |-> "size", allowed |-> config.maxSizeBytes]]
      ELSE IF fileExtension \notin config.allowedExtensions
        THEN [isValid |-> FALSE, details |-> details,
              error |-> [check |-> "extension", allowed |-> config.allowedExtensions]]
      ELSE [isValid |-> TRUE, details |-> details]

\* validateFile; the error is kept as the check that failed and the allowed
\* values its message lists
ValidateFile(file, options) ==
  LET config == ValidationConfig(options)
      fileExtension == ToLowerCase(GetFileExtension(file.name))
      details == [size |-> file.size, type |-> file.type, extension |-> fileExtension]
  IN  IF file.size > config.maxSizeBytes
        THEN [isValid |-> FALSE, details |-> details,
              error |-> [check |-> "size", allowed |-> config.maxSizeBytes]]
      ELSE IF file.type \notin config.allowedMimeTypes
        THEN [isValid |-> FALSE, details |-> details,
              error |-> [check |-> "type", allowed |-> config.allowedMimeTypes]]
      ELSE IF fileExtension \notin config.allowedExtensions
        THEN [isValid |-> FALSE, details |-> details,
              error |-> [check |-> "extension", allowed |-> config.allowedExtensions]]
      ELSE [isValid |-> TRUE, details |-> details]

\* the file names of the harness: "image.jpg", "A.JPG", "a.b.png", "a.webp",
\* "a.pdf", "jpg", ".png" and ""
FileNames ==
  { <<105, 109, 97, 103, 101, 46, 106, 112, 103>>, <<65, 46, 74, 80, 71>>,
    <<97, 46, 98, 46, 112, 110, 103>>, <<97, 46, 119, 101, 98, 112>>,
    <<97, 46, 112, 100, 102>>, <<106, 112, 103>>, <<46, 112, 110, 103>>, <<>> }

\* the file sizes of the harness: 0, 1 MB, 10 MB, 10 MB + 1, 15 MB, 20 MB + 1
FileSizes == {0, TenMB \div 10, TenMB, TenMB + 1, (3 * TenMB) \div 2, 2 * TenMB + 1}

FileTypes == {"image/jpeg", "image/png", "image/webp", "application/pdf", ""}

Files == [name : FileNames, size : FileSizes, type : FileTypes]

ValidationOptions(given, maxSizeBytes, allowedMimeTypes, allowedExtensions) ==
  [given |-> given, maxSizeBytes |-> maxSizeBytes,
   allowedMimeTypes |-> allowedMimeTypes, allowedExtensions |-> allowedExtensions]

\* the options of the harness: none, { maxSizeBytes: 20 MB },
\* { allowedMimeTypes: ['application/pdf'] }, { allowedExtensions: ['.pdf'] },
\* and the last two together
FileOptions ==
  { ValidationOptions({}, 0, {}, {}),
    ValidationOptions({"maxSizeBytes"}, 2 * TenMB, {}, {}),
    ValidationOptions({"allowedMimeTypes"}, 0, {"application/pdf"}, {}),
    ValidationOptions({"allowedExtensions"}, 0, {}, {ExtPdf}),
    ValidationOptions({"allowedMimeTypes", "allowedExtensions"}, 0,
                      {"application/pdf"}, {ExtPdf}) }

\* the arguments of new APIError in the harness; given: retryable is passed
ErrorArgs ==
  [message : {{}, {"fetch"}}, status : {404, 500}, code : {"NOT_FOUND", "ERROR"},
   given : BOOLEAN, retryable : BOOLEAN]

\* the parts of the harness: "a", "b" and "a:b"
KeyParts == { <<97>>, <<98>>, <<97, 58, 98>> }

\* the lists of parts of the harness, of one or two parts
KeyPartLists == { <<x>> : x \in KeyParts } \cup (KeyParts \X KeyParts)

KeyPrefix == <<112>>                    \* "p"

\* the messages of the plain errors of the harness, as the sets of tested
\* words they contain: '', 'network down', 'Failed to fetch', 'timeout', and
\* 'network fetch failed'
ErrorMessages == { {}, {"network"}, {"fetch"}, {"timeout"}, {"network", "fetch"} }

UtilIdle ==
  /\ utilCall = [fn |-> "none"]
  /\ utilRet = Pending

UtilInit ==
  /\ utilRet = Pending
  /\ \/ \E args \in ErrorArgs : utilCall = [fn |-> "APIError", args |-> args]
     \/ \E file \in Files, options \in FileOptions :
          utilCall = [fn |-> "validateFile", file |-> file, options |-> options]
     \/ \E name \in FileNames : utilCall = [fn |-> "getFileExtension", filename |-> name]
     \/ \E parts \in KeyPartLists :
          utilCall = [fn |-> "createCacheKey", prefix |-> KeyPrefix, parts |-> parts]
     \/ \E args \in ErrorArgs :
          utilCall = [fn |-> "isRetryableError", class |-> "APIError", args |-> args]
     \/ \E words \in ErrorMessages :
          utilCall = [fn |-> "isRetryableError", class |-> "Error", words |-> words]

UtilNewAPIError ==
  /\ utilRet = Pending /\ utilCall.fn = "APIError"
  /\ utilRet' = Returned(NewAPIError(utilCall.args))
  /\ UNCHANGED utilCall

UtilValidateFile ==
  /\ utilRet = Pending /\ utilCall.fn = "validateFile"
  /\ utilRet' = Returned(ValidateFile(utilCall.file, utilCall.options))
  /\ UNCHANGED utilCall

UtilGetFileExtension ==
  /\ utilRet = Pending /\ utilCall.fn = "getFileExtension"
  /\ utilRet' = Returned(GetFileExtension(utilCall.filename))
  /\ UNCHANGED utilCall

UtilCreateCacheKey ==
  /\ utilRet = Pending /\ utilCall.fn = "createCacheKey"
  /\ utilRet' = Returned(CreateCacheKey(utilCall.prefix, utilCall.parts))
  /\ UNCHANGED utilCall

\* isRetryableError(new APIError(...)) and isRetryableError(new Error(message))
UtilIsRetryableError ==
  /\ utilRet = Pending /\ utilCall.fn = "isRetryableError"
  /\ utilRet' = Returned(IsRetryableError(IF utilCall.class = "APIError"
                                            THEN NewAPIError(utilCall.args)
                                            ELSE PlainError(utilCall.words)))
  /\ UNCHANGED utilCall

UtilNext ==
  \/ UtilNewAPIError
  \/ UtilValidateFile
  \/ UtilGetFileExtension
  \/ UtilCreateCacheKey
  \/ UtilIsRetryableError

(***************************************************************************)
(* checkRateLimit on its own: calls and clock advances                     *)
(***************************************************************************)
\* checkRateLimit(): canMakeRequest(), then the throw or recordRequest(), with
\* no await between them
CheckRateLimit ==
  /\ IF CanMakeRequest(requests, now, windowMs, maxRequests)
       THEN /\ requests' = Append(Pruned(requests, now, windowMs), now)
            /\ recorded' = Append(recorded, now)
            /\ limOp' = [op |-> "checkRateLimit", ret |-> Returned(Undefined)]
       ELSE /\ requests' = Pruned(requests, now, windowMs)
            /\ limOp' = [op |-> "checkRateLimit", ret |-> Thrown(RateLimitError)]
            /\ UNCHANGED recorded
  /\ UNCHANGED <<now, maxRequests, windowMs>>

\* new RateLimiter() as the module builds it, or a limiter of harness size
CheckInit ==
  /\ requests = <<>>
  /\ recorded = <<>>
  /\ limOp = [op |-> "init", ret |-> FALSE]
  /\ \/ maxRequests = DefaultMaxRequests /\ windowMs = DefaultWindowMs
     \/ maxRequests \in 1..MaxLimit /\ windowMs \in 1..MaxWindow

CheckNext ==
  \/ CheckRateLimit
  \/ LimTick

(***************************************************************************)
(* Specifications: one harness per component                               *)
(***************************************************************************)
SpecCacheInit == now = 0 /\ CacheInit /\ LimIdle /\ RetryIdle /\ RoomIdle /\ BackIdle /\ UtilIdle

SpecCacheNext == CacheNext /\ UNCHANGED <<limVars, retryVars, roomVars, backVars, utilVars>>

SpecCache == SpecCacheInit /\ [][SpecCacheNext]_vars

SpecLimiterInit == now = 0 /\ LimInit /\ CacheInit /\ RetryIdle /\ RoomIdle /\ BackIdle /\ UtilIdle

SpecLimiterNext == LimNext /\ UNCHANGED <<cacheVars, retryVars, roomVars, backVars, utilVars>>

SpecLimiter == SpecLimiterInit /\ [][SpecLimiterNext]_vars

SpecRetryInit == now = 0 /\ RetryInit /\ CacheInit /\ LimIdle /\ RoomIdle /\ BackIdle /\ UtilIdle

SpecRetryNext == RetryNext /\ UNCHANGED <<cacheVars, limVars, roomVars, backVars, utilVars>>

SpecRetry == SpecRetryInit /\ [][SpecRetryNext]_vars

SpecRoomInit == RoomInit /\ RetryIdle /\ BackIdle /\ UtilIdle

SpecRoomNext == RoomNext /\ UNCHANGED <<backVars, utilVars>>

SpecRoom == SpecRoomInit /\ [][SpecRoomNext]_vars

SpecSerialInit == RoomInitAny /\ RetryIdle /\ BackIdle /\ UtilIdle

SpecSerialNext == SerialNext /\ UNCHANGED <<backVars, utilVars>>

SpecSerial == SpecSerialInit /\ [][SpecSerialNext]_vars

SpecCheckRateInit ==
  now = 0 /\ CheckInit /\ CacheInit /\ RetryIdle /\ RoomIdle /\ BackIdle /\ UtilIdle

SpecCheckRateNext ==
  CheckNext /\ UNCHANGED <<cacheVars, retryVars, roomVars, backVars, utilVars>>

SpecCheckRate == SpecCheckRateInit /\ [][SpecCheckRateNext]_vars

SpecBackendInit ==
  now = 0 /\ BackInit /\ CacheInit /\ LimIdle /\ RetryIdle /\ RoomIdle /\ UtilIdle

SpecBackendNext ==
  BackNext /\ UNCHANGED <<cacheVars, limVars, retryVars, roomVars, utilVars>>

SpecBackend == SpecBackendInit /\ [][SpecBackendNext]_vars

SpecUtilsInit ==
  now = 0 /\ UtilInit /\ CacheInit /\ LimIdle /\ RetryIdle /\ RoomIdle /\ BackIdle

SpecUtilsNext ==
  UtilNext /\ UNCHANGED <<now, cacheVars, limVars, retryVars, roomVars, backVars>>

SpecUtils == SpecUtilsInit /\ [][SpecUtilsNext]_vars

(***************************************************************************)
(* Properties                                                              *)
(***************************************************************************)
\* C1: with ttl > 0, a get of k in the same millisecond as the last set of k
\* returns the value set, and a get at least ttl + 1 ms after the last set of
\* k returns null.
C1_CacheTtl ==
  [][\A k \in TestKeys :
       (cacheOp'.op = "get" /\ cacheOp'.key = k /\ lastSet[k].set /\ lastSet[k].ttl > 0)
         => /\ (now = lastSet[k].at) => (cacheOp'.ret = lastSet[k].data)
            /\ (now - lastSet[k].at >= lastSet[k].ttl + 1) => (cacheOp'.ret = Null)
    ]_vars

\* a get that returned null exactly ttl + 1 ms after the set of its key
C1_Witness ==
  /\ cacheOp.op = "get"
  /\ lastSet[cacheOp.key].set /\ lastSet[cacheOp.key].ttl > 0
  /\ now = lastSet[cacheOp.key].at + lastSet[cacheOp.key].ttl + 1
  /\ cacheOp.ret = Null

\* the recordRequest calls made less than windowMs before t
RecentRecords(t) == {i \in 1..Len(recorded) : t - recorded[i] < windowMs}

\* C2: a canMakeRequest call made when at least maxRequests recordRequest
\* calls lie less than windowMs back returns false; a canMakeRequest call made
\* when the clock is windowMs or more past the last recordRequest returns true.
C2_LimiterWindow ==
  [][(limOp'.op = "canMakeRequest")
       => /\ (Cardinality(RecentRecords(now)) >= maxRequests) => (limOp'.ret = FALSE)
          /\ (Len(recorded) >= maxRequests
                /\ now - recorded[Len(recorded)] >= windowMs) => (limOp'.ret = TRUE)
    ]_vars

\* maxRequests records made within less than windowMs, the clock exactly
\* windowMs past the last of them, and canMakeRequest has answered true
C2_Witness ==
  /\ limOp.op = "canMakeRequest" /\ limOp.ret = TRUE
  /\ Len(recorded) >= maxRequests
  /\ recorded[Len(recorded)] - recorded[Len(recorded) - maxRequests + 1] < windowMs
  /\ now - recorded[Len(recorded)] = windowMs

RetryDone == retryPc \in {"resolved", "rejected"}

RetryableFailure(outcome) ==
  /\ ~outcome.ok
  /\ \/ outcome.error.class = "APIError" /\ outcome.error.retryable
     \/ outcome.error.class = "Error" /\ outcome.error.words \cap {"network", "fetch"} # {}

NonRetryableFailure(outcome) == ~outcome.ok /\ ~RetryableFailure(outcome)

AllRetryableFailures == \A i \in 1..Len(outcomes) : RetryableFailure(outcomes[i])

\* C3: with maxAttempts = M >= 1 the operation is never invoked more than M
\* times, and while every invocation so far failed with a retryable error,
\* withRetry has finished exactly when the operation has been invoked M times,
\* and it has then rejected with the error of the last invocation.
C3_RetryTermination ==
  retryConfig.maxAttempts >= 1 =>
    /\ Len(outcomes) <= retryConfig.maxAttempts
    /\ AllRetryableFailures =>
         /\ RetryDone <=> (Len(outcomes) = retryConfig.maxAttempts)
         /\ RetryDone => /\ retryPc = "rejected"
                         /\ retryResult = outcomes[Len(outcomes)].error

\* three retryable failures under maxAttempts = 3, and withRetry has rejected
C3_Witness ==
  /\ retryConfig.maxAttempts = 3
  /\ Len(outcomes) = 3 /\ AllRetryableFailures
  /\ retryPc = "rejected"

\* C4: an invocation that fails with a non-retryable error is the last one,
\* and withRetry has rejected with that error: an operation whose first
\* invocation fails so is invoked exactly once, whatever maxAttempts >= 1 is.
C4_RetryShortCircuit ==
  \A i \in 1..Len(outcomes) :
    NonRetryableFailure(outcomes[i]) =>
      /\ i = Len(outcomes)
      /\ retryPc = "rejected"
      /\ retryResult = outcomes[i].error

\* a first invocation that failed non-retryably with attempts to spare
C4_Witness ==
  /\ retryConfig.maxAttempts >= 3
  /\ Len(outcomes) = 1 /\ NonRetryableFailure(outcomes[1])
  /\ retryPc = "rejected" /\ retryResult = outcomes[1].error

\* C5: a successful invocation is the last one and withRetry has resolved
\* with its value; withRetry resolves in no other way; and after a first
\* retryable failure with maxAttempts >= 2 withRetry goes on to a second
\* invocation instead of rejecting.
C5_RetrySuccess ==
  /\ \A i \in 1..Len(outcomes) :
       outcomes[i].ok => /\ i = Len(outcomes)
                         /\ retryPc = "resolved"
                         /\ retryResult = outcomes[i].value
  /\ retryPc = "resolved" => (Len(outcomes) >= 1 /\ outcomes[Len(outcomes)].ok)
  /\ (Len(outcomes) = 1 /\ RetryableFailure(outcomes[1]) /\ retryConfig.maxAttempts >= 2)
       => ~RetryDone

\* one retryable failure, then a success, with a third attempt allowed
C5_Witness ==
  /\ retryConfig.maxAttempts >= 3
  /\ Len(outcomes) = 2
  /\ RetryableFailure(outcomes[1]) /\ outcomes[2].ok
  /\ retryPc = "resolved" /\ retryResult = outcomes[2].value

\* C8: the k-th sleep of a withRetry call, made after failed attempt k, lasts
\* min(baseDelay * backoffFactor^(k-1), maxDelay), which is at most maxDelay;
\* under the default options the sleeps are 1000, 2000, 4000, 8000 and then
\* 10000 each.
C8_Backoff ==
  /\ retryPc = "sleep" => Len(sleeps) = attempt
  /\ \A k \in 1..Len(sleeps) :
       /\ sleeps[k] = IF retryConfig.baseDelay * retryConfig.backoffFactor ^ (k - 1)
                            <= retryConfig.maxDelay
                         THEN retryConfig.baseDelay * retryConfig.backoffFactor ^ (k - 1)
                         ELSE retryConfig.maxDelay
       /\ sleeps[k] <= retryConfig.maxDelay
       /\ (retryConfig.baseDelay = 1000 /\ retryConfig.backoffFactor = 2
             /\ retryConfig.maxDelay = 10000)
            => sleeps[k] = IF k <= 4 THEN <<1000, 2000, 4000, 8000>>[k] ELSE 10000

\* six sleeps under the default delays, the last two clamped to maxDelay
C8_Witness ==
  /\ retryConfig.baseDelay = 1000 /\ retryConfig.backoffFactor = 2
  /\ retryConfig.maxDelay = 10000
  /\ Len(sleeps) >= 6
  /\ sleeps[4] = 8000 /\ sleeps[5] = 10000 /\ sleeps[6] = 10000

\* call p is made in this step
Called(p) == pc[p] = "idle" /\ pc'[p] # "idle"

\* the cache holds an entry for key k that has not expired at time t
Fresh(c, k, t) == k \in DOMAIN c /\ t - c[k].timestamp <= c[k].ttl

UsedUpToday == usage.item /\ usage.date = now \div DayMs /\ usage.count >= DAILY_REQUEST_LIMIT

\* C6: a call made with caching enabled while the cache holds a fresh entry
\* for its key is not rejected and leaves the stored daily usage alone, and a
\* cache look-up that finds a fresh entry returns it, the call having made
\* no quota check, no rate-limiter check and no network call.
C6_CacheHitBypasses ==
  [][\A p \in Procs :
       /\ (Called(p) /\ roomConfig'[p].useCache
             /\ Fresh(cache, CacheKeyOf(variant, req'[p]), now))
            => (pc'[p] # "failed" /\ usage' = usage)
       /\ (pc[p] = "hashing" /\ pc'[p] # "hashing" /\ roomConfig[p].useCache
             /\ Fresh(cache, CacheKeyOf(variant, req[p]), now))
            => /\ pc'[p] = "done"
               /\ result'[p] = Returned(cache[CacheKeyOf(variant, req[p])].data)
               /\ seen'[p].quota = 0 /\ seen'[p].limiter = 0 /\ seen'[p].network = 0
               /\ requests' = requests
    ]_vars

\* C7: in the OpenRouter variant, a call made while the stored usage of the
\* day has reached DAILY_REQUEST_LIMIT is rejected in that very step with an
\* APIError DAILY_QUOTA_EXCEEDED that is not retryable, having made no network
\* call and no rate-limiter check, and the limiter, the cache and the stored
\* usage are as before.
C7_QuotaExhaustion ==
  [][\A p \in Procs :
       (Called(p) /\ variant = OpenRouter /\ UsedUpToday)
         => /\ pc'[p] = "failed"
            /\ result'[p].kind = "error"
            /\ result'[p].error.class = "APIError"
            /\ result'[p].error.code = "DAILY_QUOTA_EXCEEDED"
            /\ result'[p].error.retryable = FALSE
            /\ seen'[p].network = 0 /\ seen'[p].limiter = 0
            /\ requests' = requests /\ recorded' = recorded
            /\ cache' = cache /\ usage' = usage
    ]_vars

\* the first call succeeded over the network and brought the count of the
\* day to the limit; the second call, for a key that is not cached, was
\* rejected with DAILY_QUOTA_EXCEEDED without a network call
C7_Witness ==
  /\ variant = OpenRouter
  /\ pc[1] = "done" /\ seen[1].network = 1
  /\ UsedUpToday
  /\ pc[2] = "failed"
  /\ result[2].error.code = "DAILY_QUOTA_EXCEEDED" /\ ~result[2].error.retryable
  /\ seen[2].network = 0
  /\ CacheKeyOf(variant, req[2]) \notin DOMAIN cache

C10_PromptsDistinct ==
  /\ \A p, q \in Procs :
       (cacheKey[p] # <<>> /\ cacheKey[q] # <<>>
         /\ req[p].image = req[q].image /\ req[p].prompt # req[q].prompt)
         => cacheKey[p] # cacheKey[q]
  /\ \A p \in Procs :
       pc[p] = "done" => result[p].value.sent = PromptSent(variant, req[p].prompt)
\* C11: the stored count of the user's rateLimits document never exceeds 10,
\* at most 10 requests are admitted between two resets of the document, and
\* every admitted request is counted in the document.
C11_ServerLimit ==
  /\ rateDoc.count <= BackLimit
  /\ admitted <= BackLimit
  /\ admitted = rateDoc.count
\* callable of call c is entered in this step without an authenticated context
EntersUnauthenticated(c) == bpc[c] = "idle" /\ bpc'[c] # "idle" /\ ~bargs'[c].auth

\* the client of call c receives the 'unauthenticated' failure in this step
ReceivesUnauthenticated(c) ==
  /\ bpc[c] = "responded" /\ bpc'[c] # "responded"
  /\ bout[c] = HttpsError("unauthenticated")

\* the callable fails with 'unauthenticated' having touched nothing
FailsUnauthenticated(c) ==
  /\ bpc'[c] = "responded"
  /\ bout'[c] = HttpsError("unauthenticated")
  /\ rateDoc' = rateDoc
  /\ bseen'[c] = NoReads

\* the client function rejects with APIError UNAUTHENTICATED, not retryable,
\* after its one attempt
SurfacesUnauthenticated(c) ==
  /\ bpc'[c] = "settled"
  /\ cres'[c].kind = "error"
  /\ cres'[c].error.class = "APIError"
  /\ cres'[c].error.code = "UNAUTHENTICATED"
  /\ cres'[c].error.retryable = FALSE
  /\ btries'[c] = 1
  /\ bseen'[c] = NoReads /\ rateDoc' = rateDoc

\* C12 as stated: a call of either callable without an authenticated context
\* fails with 'unauthenticated' before any read or write of the rate-limit
\* document and before any AI API call, and the client function that made the
\* call rejects with APIError UNAUTHENTICATED, not retryable, without a retry.
C12_AsStated ==
  [][\A c \in BackCalls :
       /\ EntersUnauthenticated(c) => FailsUnauthenticated(c)
       /\ ReceivesUnauthenticated(c) => SurfacesUnauthenticated(c)
    ]_vars

\* C12: a call of either callable without an authenticated context fails
\* with 'unauthenticated' before any read or write of the rate-limit document
\* and before any AI API call; redesignRoom then rejects with APIError
\* UNAUTHENTICATED, not retryable, without a retry, while the client
\* getUserUsageStats returns the default stats instead of rejecting.
C12_Authentication ==
  [][\A c \in BackCalls :
       /\ EntersUnauthenticated(c) => FailsUnauthenticated(c)
       /\ (ReceivesUnauthenticated(c) /\ bargs[c].fn = Generate)
            => SurfacesUnauthenticated(c)
       /\ (ReceivesUnauthenticated(c) /\ bargs[c].fn = Stats)
            => /\ bpc'[c] = "settled"
               /\ cres'[c] = Returned(DefaultStats(now))
               /\ bseen'[c] = NoReads /\ rateDoc' = rateDoc
    ]_vars

\* an unauthenticated redesignRoom was rejected with UNAUTHENTICATED after one
\* attempt, and an unauthenticated getUserUsageStats returned the default
\* stats, neither having touched the document or the AI API
C12_Witness ==
  \E c, d \in BackCalls :
    /\ bpc[c] = "settled" /\ bargs[c].fn = Generate /\ ~bargs[c].auth
    /\ cres[c].kind = "error" /\ cres[c].error.code = "UNAUTHENTICATED"
    /\ btries[c] = 1 /\ bseen[c] = NoReads
    /\ bpc[d] = "settled" /\ bargs[d].fn = Stats /\ ~bargs[d].auth
    /\ cres[d].kind = "value" /\ bseen[d] = NoReads
    /\ rateDoc.count = admitted
\* error instanceof APIError
IsAPIError(e) == "class" \in DOMAIN e /\ e.class = "APIError"

\* C13: a redesignRoom call that is over has returned an artifact or has
\* rejected with an APIError.
C13_ClassifiedErrors ==
  \A p \in Procs :
    /\ pc[p] = "failed" => (result[p].kind = "error" /\ IsAPIError(result[p].error))
    /\ pc[p] = "done" => (result[p].kind = "value" /\ result[p].value.image = req[p].image)
QuotaCodes == {"DAILY_QUOTA_EXCEEDED", "QUOTA_EXCEEDED"}

\* C14: an APIError with code DAILY_QUOTA_EXCEEDED or QUOTA_EXCEEDED that a
\* redesignRoom call rejects with is not retryable, and the call has invoked
\* the network operation at most once.
C14_QuotaNotRetryable ==
  \A p \in Procs :
    (pc[p] = "failed" /\ IsAPIError(result[p].error)
      /\ result[p].error.code \in QuotaCodes)
      => (result[p].error.retryable = FALSE /\ seen[p].network <= 1)
\* today's count of the daily usage counter
CountToday(store) == GetDailyUsage(store, now).count

\* C15: in the OpenRouter variant built without API key, every redesignRoom
\* call that got as far as withRetry (past the quota check, the cache and the
\* rate limiter) and is over has rejected with APIError MISSING_API_KEY, not
\* retryable, with no HTTP request, whatever its maxRetries, and no step
\* changes today's usage count or the cache.
C15_MissingKey ==
  /\ [](\A p \in Procs :
         (variant = OpenRouter /\ ~apiKeySet /\ pc[p] \in {"done", "failed"}
           /\ tries[p] >= 1)
           => /\ pc[p] = "failed"
              /\ IsAPIError(result[p].error)
              /\ result[p].error.code = "MISSING_API_KEY"
              /\ result[p].error.retryable = FALSE
              /\ seen[p].network = 0 /\ tries[p] = 1)
  /\ [][(variant = OpenRouter /\ ~apiKeySet)
         => (CountToday(usage') = CountToday(usage) /\ cache' = cache)]_vars
\* the harness call of fn has returned
UtilReturned(fn) == utilCall.fn = fn /\ utilRet.kind = "value"

\* C16: an APIError constructed with (message, status, code, retryable) is an
\* instance of Error and its properties message, statusCode, code and
\* isRetryable hold the four values.
C16_Shape ==
  UtilReturned("APIError") =>
    LET error == utilRet.value
        args == utilCall.args
    IN  /\ InstanceOfError(error)
        /\ GetProp(error, "message") = Some(args.message)
        /\ GetProp(error, "statusCode") = Some(args.status)
        /\ GetProp(error, "code") = Some(args.code)
        /\ GetProp(error, "isRetryable") = Some(args.given /\ args.retryable)

\* the option k of a validateFile call: the given one, or the default
OptionOrDefault(options, k, default) == IF k \in options.given THEN options[k] ELSE default

\* C17: validateFile returns isValid = true exactly when the size is at most
\* maxSizeBytes, the type is an allowed MIME type and the lower-cased
\* extension is an allowed extension, with the defaults 10 MB, jpeg/png/webp
\* and .jpg/.jpeg/.png/.webp for the options not given; otherwise isValid is
\* false and the error is that of the first failing check in the order size,
\* MIME type, extension.
C17_ValidateFile ==
  UtilReturned("validateFile") =>
    LET file == utilCall.file
        options == utilCall.options
        sizeOk == file.size <= OptionOrDefault(options, "maxSizeBytes", TenMB)
        typeOk == file.type \in OptionOrDefault(options, "allowedMimeTypes",
                                  {"image/jpeg", "image/png", "image/webp"})
        extOk == ToLowerCase(GetFileExtension(file.name))
                   \in OptionOrDefault(options, "allowedExtensions",
                                       {ExtJpg, ExtJpeg, ExtPng, ExtWebp})
        ret == utilRet.value
    IN  /\ ret.isValid = (sizeOk /\ typeOk /\ extOk)
        /\ ret.isValid => "error" \notin DOMAIN ret
        /\ ~ret.isValid =>
             ret.error.check = IF ~sizeOk THEN "size"
                               ELSE IF ~typeOk THEN "type" ELSE "extension"

\* a file of 15 MB and type application/pdf was rejected, under the default
\* options, with the error of the size check
C17_Witness ==
  /\ UtilReturned("validateFile")
  /\ utilCall.options.given = {}
  /\ utilCall.file.size > TenMB
  /\ utilCall.file.type = "application/pdf"
  /\ ~utilRet.value.isValid
  /\ utilRet.value.error.check = "size"

\* the lower-cased suffix of the filename from its last '.', or the empty
\* string when it has none
SuffixFromLastDot(filename) ==
  IF \E i \in 1..Len(filename) : filename[i] = Dot
    THEN SubSeq(ToLowerCase(filename), LastIndexOf(filename, Dot) + 1, Len(filename))
    ELSE <<>>

\* C18: getFileExtension returns the lower-cased suffix of the filename
\* starting at its last '.', and the empty string for a filename without '.'.
C18_FileExtension ==
  UtilReturned("getFileExtension") =>
    utilRet.value = SuffixFromLastDot(utilCall.filename)

\* C19: createCacheKey returns, for a list of parts, a key that it returns
\* for no other list of parts with the same prefix.
C19_KeyInjective ==
  UtilReturned("createCacheKey") =>
    \A other \in KeyPartLists :
      other # utilCall.parts => CreateCacheKey(utilCall.prefix, other) # utilRet.value
\* call q has missed the cache and has not completed
InFlight(q) == pc[q] \in {"admitted", "fetching", "sleeping"}

\* C20: a call that looks up a cache key for which another call is in flight
\* misses the cache and goes on to the rate limiter (OpenRouter variant) or
\* to the network (Firebase variant), and every call that succeeds with
\* caching enabled writes the cache entry of its key.
C20_NoSingleFlight ==
  [][\A p \in Procs :
       /\ (/\ pc[p] = "hashing" /\ pc'[p] # "hashing"
           /\ \E q \in Procs \ {p} : InFlight(q) /\ cacheKey[q] = cacheKey'[p])
            => /\ ~seen'[p].cacheHit
               /\ pc'[p] # "done"
               /\ IF variant = Firebase
                    THEN pc'[p] = "fetching" /\ seen'[p].network = 1
                    ELSE seen'[p].limiter = 1
       /\ (pc[p] = "fetching" /\ pc'[p] = "done" /\ roomConfig[p].useCache)
            => /\ cacheKey[p] \in DOMAIN cache'
               /\ cache'[cacheKey[p]] =
                    [data |-> result'[p].value, timestamp |-> now,
                     ttl |-> roomConfig[p].cacheTimeMs]
    ]_vars

\* two calls with the same arguments, caching enabled and no time passed: the
\* first has made its network call, returned and written the cache entry, the
\* second missed the cache before that and is making its own network call
C20_Witness ==
  /\ pc[1] = "done" /\ seen[1].network = 1 /\ ~seen[1].cacheHit
  /\ req[1] = req[2] /\ roomConfig[1].useCache
  /\ cacheKey[1] # <<>> /\ cacheKey[1] = cacheKey[2]
  /\ Fresh(cache, cacheKey[1], now)
  /\ pc[2] = "fetching" /\ seen[2].network = 1
  /\ ticks = 0 /\ now = 0
\* the calls that checkRateLimit let through less than windowMs before t
AdmittedWithin(t) == {i \in 1..Len(recorded) : recorded[i] <= t /\ t - recorded[i] < windowMs}

\* C21: checkRateLimit runs canMakeRequest and recordRequest without an await
\* between them, so concurrent redesignRoom calls cannot interleave there: in
\* every window of windowMs at most maxRequests calls have been let through,
\* and the limiter never holds more than maxRequests timestamps of one window.
C21_AtomicAdmission ==
  (variant = OpenRouter) =>
    /\ \A i \in 1..Len(recorded) : Cardinality(AdmittedWithin(recorded[i])) <= maxRequests
    /\ Cardinality({i \in 1..Len(requests) : now - requests[i] < windowMs}) <= maxRequests

\* the premise of C21 as worded: check and record are separate steps of a
\* call, so that the step in which a call passes canMakeRequest has not yet
\* recorded its timestamp and another caller can be checked in between
C21_AsStated ==
  [][\A p \in Procs :
       (variant = OpenRouter /\ pc[p] = "hashing" /\ pc'[p] = "admitted")
         => (recorded' = recorded /\ requests' = Pruned(requests, now, windowMs))
    ]_vars

\* one slot was left and two calls were in flight at the same instant: one of
\* them took the slot, the other was turned away
C21_Witness ==
  /\ variant = OpenRouter /\ ticks = 0
  /\ Len(requests) = maxRequests
  /\ seen[1].limiter = 1 /\ seen[2].limiter = 1
  /\ pc[1] = "admitted"
  /\ pc[2] = "failed" /\ result[2] = Thrown(RateLimitError)

\* the invariant as C22 words it: in every state every retained timestamp lies
\* in [now - windowMs, now]
C22_AsStated ==
  \A i \in 1..Len(requests) : now - windowMs <= requests[i] /\ requests[i] <= now

\* C22: no retained timestamp is ever later than the clock, and in the state
\* canMakeRequest leaves behind every retained timestamp is less than windowMs
\* old; between two canMakeRequest calls older timestamps stay in the list,
\* because only canMakeRequest filters it.
C22_WindowAfterCheck ==
  /\ \A i \in 1..Len(requests) : requests[i] <= now
  /\ (limOp.op = "canMakeRequest")
       => \A i \in 1..Len(requests) : now - requests[i] < windowMs

\* canMakeRequest has just dropped an old timestamp and kept a recent one
C22_Witness ==
  /\ limOp.op = "canMakeRequest"
  /\ Len(requests) >= 1
  /\ Len(recorded) > Len(requests)
  /\ now - recorded[1] >= windowMs

\* the errors generateDesign / generateImage can throw after a network call
AttemptErrors ==
  { IF variant = Firebase THEN FirebaseError(raw) ELSE OpenRouterError(raw) :
      raw \in {o \in RawOutcomes(variant) : o.kind # "ok"} }

\* cache c holds nothing that cache d does not hold
NothingNewIn(c, d) == \A k \in DOMAIN c : k \in DOMAIN d /\ c[k] = d[k]

\* C23: a redesignRoom call whose network attempt fails for the last time
\* rejects with the APIError that attempt threw, and no step of a call other
\* than its successful return adds or rewrites a cache entry or changes
\* today's usage count.
C23_CleanFailure ==
  [][\A p \in Procs :
       /\ (pc[p] = "fetching" /\ pc'[p] = "failed")
            => /\ result'[p].kind = "error"
               /\ IsAPIError(result'[p].error)
               /\ result'[p].error \in AttemptErrors
               /\ result'[p].error.retryable => tries[p] = roomConfig[p].maxRetries
       /\ (pc'[p] # pc[p] /\ pc'[p] # "done")
            => /\ NothingNewIn(cache', cache)
               /\ CountToday(usage') = CountToday(usage)
    ]_vars

\* an OpenRouter call with maxRetries 2 failed twice with a retryable error
\* and rejected with it; nothing is cached and the count is still 4
C23_Witness ==
  /\ variant = OpenRouter
  /\ pc[1] = "failed" /\ tries[1] = MaxRetries /\ seen[1].network = MaxRetries
  /\ IsAPIError(result[1].error) /\ result[1].error.retryable
  /\ cache = EmptyCache
  /\ usage.item /\ usage.count = DAILY_REQUEST_LIMIT - 1

\* C24: isRetryableError of an APIError is the retryable argument it was
\* constructed with, false when none was passed, whatever the message holds;
\* isRetryableError of any other Error is true exactly when its message
\* contains 'network' or 'fetch'.
C24_Retryability ==
  UtilReturned("isRetryableError") =>
    IF utilCall.class = "APIError"
      THEN utilRet.value = (utilCall.args.given /\ utilCall.args.retryable)
      ELSE utilRet.value = (utilCall.words \cap {"network", "fetch"} # {})

\* an APIError whose message contains 'fetch', constructed without a
\* retryable argument, has been classified as not retryable
C24_Witness ==
  /\ UtilReturned("isRetryableError")
  /\ utilCall.class = "APIError"
  /\ utilCall.args.message = {"fetch"} /\ ~utilCall.args.given
  /\ utilRet.value = FALSE

\* C25: withRetry sleeps once after each invocation that failed with a
\* retryable error before attempt maxAttempts, and at no other time: when it
\* has rejected after k >= 1 invocations it has slept exactly k - 1 times,
\* each time after a retryable failure, and it rejects with the error of the
\* k-th invocation; while it sleeps it has slept once per invocation.
C25_NoFinalDelay ==
  /\ \A i \in 1..Len(sleeps) :
       i <= Len(outcomes) /\ RetryableFailure(outcomes[i]) /\ i < retryConfig.maxAttempts
  /\ (retryPc = "rejected" /\ Len(outcomes) >= 1)
       => /\ Len(sleeps) = Len(outcomes) - 1
          /\ retryResult = outcomes[Len(outcomes)].error
  /\ (retryPc = "sleep") => Len(sleeps) = Len(outcomes)
  /\ (retryPc = "attempt") => Len(sleeps) = Len(outcomes)

\* two retryable failures and then a non-retryable one, with attempts to
\* spare: rejected after three invocations and two sleeps
C25_Witness ==
  /\ retryPc = "rejected" /\ retryConfig.maxAttempts > 3
  /\ Len(outcomes) = 3 /\ Len(sleeps) = 2
  /\ NonRetryableFailure(outcomes[3])
  /\ retryResult = outcomes[3].error

\* call q has succeeded over the network with caching enabled and a positive
\* cacheTimeMs, and call p, made with caching enabled, has its image and prompt
CachedFor(q, p) ==
  /\ q # p /\ pc[q] = "done" /\ seen[q].network >= 1
  /\ roomConfig[q].useCache /\ roomConfig[q].cacheTimeMs > 0
  /\ req[p].image = req[q].image /\ req[p].prompt = req[q].prompt
  /\ roomConfig[p].useCache

\* C26: when a call has succeeded over the network with caching enabled, the
\* cache look-up of a later call with the same image and prompt, made no more
\* than cacheTimeMs after the result was stored, returns the stored artifact
\* with no network call and no change of the stored usage; made later than
\* that it misses, and the same call (same options too) goes on to a network
\* call. A call that hit the cache has made no network call at all.
C26_ResultCaching ==
  [][\A p, q \in Procs :
       /\ (pc[p] = "hashing" /\ pc'[p] # "hashing" /\ CachedFor(q, p))
            => IF now - cache[cacheKey[q]].timestamp <= roomConfig[q].cacheTimeMs
                 THEN /\ pc'[p] = "done" /\ result'[p] = result[q]
                      /\ seen'[p].cacheHit /\ seen'[p].network = 0
                      /\ usage' = usage
                 ELSE /\ ~seen'[p].cacheHit
                      /\ (req[p] = req[q]) =>
                           \/ pc'[p] = "fetching" /\ seen'[p].network = 1
                           \/ pc'[p] = "admitted"
       /\ (pc[p] = "admitted" /\ pc'[p] # "admitted" /\ CachedFor(q, p) /\ req[p] = req[q])
            => (pc'[p] = "fetching" /\ seen'[p].network = 1)
       /\ seen[p].cacheHit => (seen[p].network = 0 /\ tries[p] = 0)
    ]_vars

\* the second call came a rate-limiter window after the first, found its
\* result in the cache and returned it; one request has been counted
C26_Witness ==
  /\ variant = OpenRouter
  /\ pc[1] = "done" /\ seen[1].network = 1
  /\ pc[2] = "done" /\ seen[2].cacheHit /\ seen[2].network = 0
  /\ result[2] = result[1]
  /\ now - cache[cacheKey[1]].timestamp = DefaultWindowMs
  /\ usage.count = 1

\* C27: of the calls checkRateLimit has let through, no more than maxRequests
\* lie in any span shorter than windowMs; a call it turns away throws
\* APIError 429 RATE_LIMIT_EXCEEDED, retryable, and records no timestamp; a
\* call it lets through records exactly one timestamp, the current time.
C27_AdmissionBound ==
  /\ [](\A i \in 1..Len(recorded) :
          Cardinality(AdmittedWithin(recorded[i])) <= maxRequests)
  /\ [][(limOp'.op = "checkRateLimit")
         => LET kept == SelectSeq(requests, LAMBDA t : now - t < windowMs)
            IN  IF limOp'.ret.kind = "error"
                  THEN /\ limOp'.ret.error.class = "APIError"
                       /\ limOp'.ret.error.status = 429
                       /\ limOp'.ret.error.code = "RATE_LIMIT_EXCEEDED"
                       /\ limOp'.ret.error.retryable
                       /\ requests' = kept
                       /\ recorded' = recorded
                  ELSE /\ requests' = Append(kept, now)
                       /\ recorded' = Append(recorded, now)
       ]_vars

\* two calls were let through, the window slid past them, two more were let
\* through, and the next call has been turned away
C27_Witness ==
  /\ limOp.op = "checkRateLimit" /\ limOp.ret.kind = "error"
  /\ maxRequests = 2 /\ Len(recorded) = 4 /\ Len(requests) = 2
  /\ recorded[3] - recorded[2] >= windowMs

\* C28, as stated: the stored daily usage count never exceeds
\* DAILY_REQUEST_LIMIT, and the quota check of a call made on a new day leaves
\* a stored count of 0.
C28_DailyQuotaBound ==
  /\ [](usage.item => usage.count <= DAILY_REQUEST_LIMIT)
  /\ [][\A p \in Procs :
         (variant = OpenRouter /\ Called(p) /\ usage.item /\ usage.date # Today(now))
           => (usage'.date = Today(now) /\ usage'.count = 0)
       ]_vars

\* call p passes the rate check in this step
PassesRateCheck(p) == pc[p] = "hashing" /\ pc'[p] = "admitted"

\* call p is turned away by the rate check in this step
FailsRateCheck(p) ==
  /\ pc[p] = "hashing" /\ pc'[p] = "failed"
  /\ result'[p] = Thrown(RateLimitError)

\* C29: in the OpenRouter variant the limiter gains exactly one timestamp, the
\* current time, in the step in which a call passes the rate check, and none
\* in any other step: not when a call is turned away, hits the cache or fails
\* the quota check, and not when an attempt or a retry is made, succeeds or
\* fails. Each call makes at most one rate check however many network calls
\* it makes, so a window can see more network calls than timestamps.
C29_OneSlotPerRequest ==
  /\ [](\A p \in Procs :
          /\ seen[p].limiter <= 1
          /\ seen[p].network >= 1 /\ variant = OpenRouter => seen[p].limiter = 1)
  /\ [][(variant = OpenRouter) =>
          LET kept == SelectSeq(requests, LAMBDA t : now - t < windowMs)
          IN  \A p \in Procs :
                /\ PassesRateCheck(p)
                     => (requests' = Append(kept, now) /\ recorded' = Append(recorded, now))
                /\ FailsRateCheck(p) => (requests' = kept /\ recorded' = recorded)
                /\ (pc'[p] # pc[p] /\ ~PassesRateCheck(p) /\ ~FailsRateCheck(p))
                     => (requests' = requests /\ recorded' = recorded)
       ]_vars

\* one call alone: it took one slot, made two network calls and failed
C29_Witness ==
  /\ variant = OpenRouter
  /\ pc[1] = "failed" /\ pc[2] = "idle"
  /\ seen[1].limiter = 1 /\ seen[1].network = 2
  /\ Len(recorded) = 1 /\ requests = <<recorded[1]>>

\* C30, as stated: the step in which generateRoomDesign rejects a call with
\* 'invalid-argument' leaves the caller's rateLimits document as it was, and
\* the call has made no request to the AI API.
C30_RejectedInputIsFree ==
  [][\A c \in BackCalls :
       (bpc[c] = "checking" /\ bpc'[c] = "responded"
          /\ bout'[c] = HttpsError("invalid-argument"))
         => (rateDoc' = rateDoc /\ bseen'[c].fetches = 0)
    ]_vars

====
